---------------------------- MODULE Spec2Model ----------------------------
(***************************************************************************)
(* Channel rate-limit accounting (service/channel_rate_limit.go).          *)
(*                                                                         *)
(* Both backends are driven in lock step: every call is applied to the     *)
(* Redis store (rdb) and to the in-process maps (memoryRPMStore,           *)
(* memoryTPMStore, memoryRPDStore) with the same arguments at the same     *)
(* clock value, and the results of both are kept in `last`.                *)
(*                                                                         *)
(* Strings are sequences of one-character strings, so that the storage     *)
(* keys are built the way fmt.Sprintf builds them.                         *)
(*                                                                         *)
(* The clock counts whole seconds, as time.Now().Unix() does, and Redis    *)
(* measures its expiries on the same clock.                                *)
(*                                                                         *)
(* Spec, SpecFaulty and SpecOneKey make the calls one at a time;           *)
(* SpecThreads lets two threads call one backend on one key, each call     *)
(* split at the points where another thread can run.  The definitions      *)
(* follow lines 1-269 of the file, where Record writes every dimension     *)
(* whatever the limits are; SpecSecond runs the Record of the second       *)
(* variant, lines 271-535, which writes only the limited dimensions.       *)
(***************************************************************************)
EXTENDS Integers, Sequences, FiniteSets, TLC

VARIABLES
    now,             \* time.Now().Unix()
    rdb,             \* Redis: key -> [val, exp]; val is a list or an integer
    memoryRPMStore,  \* key -> sequence of timestamps
    memoryTPMStore,  \* key -> [Count, Expiration]
    memoryRPDStore,  \* key -> [Count, Expiration]
    hist,            \* ghost: per (channelId, modelName), the Records made
    last,            \* the last call, its arguments and both backends' results
    outage,          \* the Redis operations that fail when a call hits the outage
    mode,            \* how the run is driven: "lockstep", "onekey", "memory", "redis"
    th,              \* per thread: the call it is in, its position and its locals
    memoryMutex      \* sync.RWMutex: [writer |-> a set of at most one thread, readers]

vars == <<now, rdb, memoryRPMStore, memoryTPMStore, memoryRPDStore,
          hist, last, outage, mode, th, memoryMutex>>

tvars == <<mode, th, memoryMutex>>

stores == <<rdb, memoryRPMStore, memoryTPMStore, memoryRPDStore>>

-----------------------------------------------------------------------------
(* Bounds of the model *)

MaxRecords == 2          \* Records per run without store failures
MaxRecordsFaulty == 1    \* Records per run with store failures
MaxRecordsOneKey == 3    \* Records per run on a single key
MaxRecordsThreads == 2   \* Records per run of the concurrent callers

(* Program constants *)

Minute == 60
Day == 86400
DefaultMonitorCap == 1000

ChannelRPMPrefix == <<"c","h","a","n","n","e","l",":","r","p","m",":">>
ChannelTPMPrefix == <<"c","h","a","n","n","e","l",":","t","p","m",":">>
ChannelRPDPrefix == <<"c","h","a","n","n","e","l",":","r","p","d",":">>

(* Inputs *)

Pairs == { <<1, <<"1","a">>>>, <<11, <<"a">>>> }   \* (channelId, modelName)
Limits == {0 - 1, 0, 1, 2, 3, 4}      \* limits the properties range over
\* (rpm, tpm, rpd) limits Check is called with
CheckLimits == { <<0, 0, 0>>, <<1, 0, 0>>, <<2, 0, 0>>, <<0, 3, 0>>,
                 <<0, 0, 1>>, <<0, 0, 2>>, <<2, 3, 2>> }
\* (rpm, tpm, rpd, tokens) arguments Record is called with
RecordArgs == { <<0, 0, 0, 1>>, <<1, 0, 0, 0>>, <<2, 3, 2, 2>> }
\* the clock values at which calls are made
Instants == {0, 30, 60, 61, Day - 1, Day}
NoTTL == 0 - 1                        \* a Redis key without expiry
OnePair == <<1, <<"1","a">>>>         \* the key of the single-key and threaded runs
Threads == {"t1", "t2"}

-----------------------------------------------------------------------------
(* Generic helpers *)

EmptyMap == [k \in {} |-> 0]

Put(m, k, v) == [x \in (DOMAIN m) \cup {k} |-> IF x = k THEN v ELSE m[x]]

Has(m, k) == k \in DOMAIN m

RECURSIVE CountIf(_, _)
\* number of timestamps ts of s with t - ts < 60 (the loops at 158-162, 247-251)
CountIf(s, t) ==
    IF s = <<>> THEN 0
    ELSE (IF t - Head(s) < Minute THEN 1 ELSE 0) + CountIf(Tail(s), t)

Digit(d) == <<"0","1","2","3","4","5","6","7","8","9">>[d + 1]

RECURSIVE Itoa(_)
\* the %d verb
Itoa(n) ==
    IF n < 0 THEN <<"-">> \o Itoa(0 - n)
    ELSE IF n < 10 THEN <<Digit(n)>>
    ELSE Itoa(n \div 10) \o <<Digit(n % 10)>>

\* fmt.Sprintf("%s%d:%s", prefix, channelId, modelName)
RedisKey(prefix, channelId, modelName) ==
    prefix \o Itoa(channelId) \o <<":">> \o modelName

\* a plausible slip: the separator left out of the format string
MemoryKeyNoSep(channelId, modelName) == Itoa(channelId) \o modelName

\* fmt.Sprintf("%d:%s", channelId, modelName)
MemoryKey(channelId, modelName) == Itoa(channelId) \o <<":">> \o modelName


-----------------------------------------------------------------------------
(* In-process backend *)

\* lines 155-167: the RPM dimension of checkChannelRateLimitMemory
checkRPMMemory(key, rpm) ==
    /\ rpm > 0
    /\ Has(memoryRPMStore, key)
    /\ CountIf(memoryRPMStore[key], now) >= rpm

\* a plausible slip: the expiration not looked at
checkTPMMemoryStale(key, tpm) ==
    /\ tpm > 0
    /\ Has(memoryTPMStore, key)
    /\ memoryTPMStore[key].Count >= tpm

\* lines 170-176: the TPM dimension of checkChannelRateLimitMemory
checkTPMMemory(key, tpm) ==
    /\ tpm > 0
    /\ Has(memoryTPMStore, key)
    /\ now < memoryTPMStore[key].Expiration
    /\ memoryTPMStore[key].Count >= tpm

\* a plausible slip: limit 0 taken as a limit
checkRPDMemoryZero(key, rpd) ==
    /\ rpd >= 0
    /\ Has(memoryRPDStore, key)
    /\ now < memoryRPDStore[key].Expiration
    /\ memoryRPDStore[key].Count >= rpd

\* lines 179-185: the RPD dimension of checkChannelRateLimitMemory
checkRPDMemory(key, rpd) ==
    /\ rpd > 0
    /\ Has(memoryRPDStore, key)
    /\ now < memoryRPDStore[key].Expiration
    /\ memoryRPDStore[key].Count >= rpd

checkChannelRateLimitMemory(channelId, modelName, rpm, tpm, rpd) ==
    LET key == MemoryKey(channelId, modelName) IN
    IF checkRPMMemory(key, rpm) THEN "Saturated"
    ELSE IF checkTPMMemory(key, tpm) THEN "Saturated"
    ELSE IF checkRPDMemory(key, rpd) THEN "Saturated"
    ELSE "ok"

\* a plausible slip: the cut made at the wrong end
recordRPMMemoryKeepOldest(key, rpm) ==
    LET timestamps == IF Has(memoryRPMStore, key) THEN memoryRPMStore[key] ELSE <<>>
        newTimestamps == SelectSeq(timestamps, LAMBDA ts : now - ts < Minute) \o <<now>>
        limitRPM == IF rpm <= 0 THEN DefaultMonitorCap ELSE rpm
        n == Len(newTimestamps)
    IN  IF n > limitRPM THEN SubSeq(newTimestamps, 1, limitRPM)
        ELSE newTimestamps

\* lines 198-215: the new RPM window written by recordChannelRateLimitMemory
recordRPMMemory(key, rpm) ==
    LET timestamps == IF Has(memoryRPMStore, key) THEN memoryRPMStore[key] ELSE <<>>
        newTimestamps == SelectSeq(timestamps, LAMBDA ts : now - ts < Minute) \o <<now>>
        limitRPM == IF rpm <= 0 THEN DefaultMonitorCap ELSE rpm
        n == Len(newTimestamps)
    IN  IF n > limitRPM THEN SubSeq(newTimestamps, n - limitRPM + 1, n)
        ELSE newTimestamps

\* a plausible slip: the count of the expired window carried into the new one
recordTPMMemoryCarry(key, tokens) ==
    IF tokens > 0
    THEN IF ~Has(memoryTPMStore, key)
         THEN Put(memoryTPMStore, key, [Count |-> tokens, Expiration |-> now + Minute])
         ELSE Put(memoryTPMStore, key,
                  [Count |-> memoryTPMStore[key].Count + tokens,
                   Expiration |-> IF now >= memoryTPMStore[key].Expiration
                                  THEN now + Minute
                                  ELSE memoryTPMStore[key].Expiration])
    ELSE memoryTPMStore

\* lines 218-226: the TPM store after recordChannelRateLimitMemory
recordTPMMemory(key, tokens) ==
    IF tokens > 0
    THEN IF ~Has(memoryTPMStore, key) \/ now >= memoryTPMStore[key].Expiration
         THEN Put(memoryTPMStore, key, [Count |-> tokens, Expiration |-> now + Minute])
         ELSE Put(memoryTPMStore, key,
                  [Count |-> memoryTPMStore[key].Count + tokens,
                   Expiration |-> memoryTPMStore[key].Expiration])
    ELSE memoryTPMStore

\* a plausible slip: the window still open at its expiration
recordRPDMemoryLate(key) ==
    IF ~Has(memoryRPDStore, key) \/ now > memoryRPDStore[key].Expiration
    THEN Put(memoryRPDStore, key, [Count |-> 1, Expiration |-> now + Day])
    ELSE Put(memoryRPDStore, key,
             [Count |-> memoryRPDStore[key].Count + 1,
              Expiration |-> memoryRPDStore[key].Expiration])

\* lines 229-235: the RPD store after recordChannelRateLimitMemory
recordRPDMemory(key) ==
    IF ~Has(memoryRPDStore, key) \/ now >= memoryRPDStore[key].Expiration
    THEN Put(memoryRPDStore, key, [Count |-> 1, Expiration |-> now + Day])
    ELSE Put(memoryRPDStore, key,
             [Count |-> memoryRPDStore[key].Count + 1,
              Expiration |-> memoryRPDStore[key].Expiration])

recordChannelRateLimitMemory(channelId, modelName, rpm, tpm, rpd, tokens) ==
    LET key == MemoryKey(channelId, modelName) IN
    /\ memoryRPMStore' = Put(memoryRPMStore, key, recordRPMMemory(key, rpm))
    /\ memoryTPMStore' = recordTPMMemory(key, tokens)
    /\ memoryRPDStore' = recordRPDMemory(key)

getChannelRateLimitUsageMemory(channelId, modelName) ==
    LET key == MemoryKey(channelId, modelName) IN
    [rpm |-> IF Has(memoryRPMStore, key) THEN CountIf(memoryRPMStore[key], now) ELSE 0,
     tpm |-> IF Has(memoryTPMStore, key) /\ now < memoryTPMStore[key].Expiration
             THEN memoryTPMStore[key].Count ELSE 0,
     rpd |-> IF Has(memoryRPDStore, key) /\ now < memoryRPDStore[key].Expiration
             THEN memoryRPDStore[key].Count ELSE 0]

-----------------------------------------------------------------------------
(* Redis backend.  A key whose expiry has passed is absent: Tick removes it.  *)
(* A failed operation has no effect on the store and returns an error.        *)

RecordOps == {"LPush", "LTrim", "ExpireRPM", "Incr", "ExpireRPD", "IncrBy", "ExpireTPM"}
RpmOps == {"LPush", "LTrim", "ExpireRPM"}
RpdOps == {"Incr", "ExpireRPD"}
TpmOps == {"IncrBy", "ExpireTPM"}
ReadOps == {"LLen", "LIndex", "GetRPD", "GetTPM"}

\* rdb.LLen(ctx, key).Result(): 0 for a key that does not exist
LLen(db, key) == IF Has(db, key) THEN Len(db[key].val) ELSE 0

\* rdb.LIndex(ctx, key, -1).Int64(): the tail of the list, redis.Nil when absent
LIndexLast(db, key) ==
    IF Has(db, key)
    THEN [err |-> FALSE, val |-> db[key].val[Len(db[key].val)]]
    ELSE [err |-> TRUE, val |-> 0]

\* rdb.Get(ctx, key).Int64(): redis.Nil when absent
Get(db, key) ==
    IF Has(db, key) THEN [err |-> FALSE, val |-> db[key].val]
    ELSE [err |-> TRUE, val |-> 0]

\* rdb.LPush(ctx, key, v): insert at the head, creating the list
LPush(db, key, v) ==
    IF Has(db, key)
    THEN Put(db, key, [val |-> <<v>> \o db[key].val, exp |-> db[key].exp])
    ELSE Put(db, key, [val |-> <<v>>, exp |-> NoTTL])

\* rdb.LTrim(ctx, key, 0, stop): keep the elements 0..stop counted from the head
LTrim(db, key, stop) ==
    IF Has(db, key) /\ Len(db[key].val) > stop + 1
    THEN Put(db, key, [val |-> SubSeq(db[key].val, 1, stop + 1), exp |-> db[key].exp])
    ELSE db

\* rdb.Expire(ctx, key, d): no effect on a key that does not exist
Expire(db, key, d) ==
    IF Has(db, key) THEN Put(db, key, [val |-> db[key].val, exp |-> now + d])
    ELSE db

\* rdb.Incr / rdb.IncrBy: a key that does not exist counts from 0, without expiry
IncrBy(db, key, n) ==
    IF Has(db, key) THEN Put(db, key, [val |-> db[key].val + n, exp |-> db[key].exp])
    ELSE Put(db, key, [val |-> n, exp |-> NoTTL])

\* a plausible slip: an event exactly 60 seconds old still counts
checkRPMRedisInclusive(channelId, modelName, rpm, F) ==
    LET key == RedisKey(ChannelRPMPrefix, channelId, modelName)
        oldTime == LIndexLast(rdb, key)
    IN  /\ rpm > 0
        /\ "LLen" \notin F
        /\ LLen(rdb, key) >= rpm
        /\ "LIndex" \notin F
        /\ ~oldTime.err
        /\ now - oldTime.val <= Minute

\* lines 60-72: the RPM dimension of checkChannelRateLimitRedis; F: the failing reads
checkRPMRedis(channelId, modelName, rpm, F) ==
    LET key == RedisKey(ChannelRPMPrefix, channelId, modelName)
        oldTime == LIndexLast(rdb, key)
    IN  /\ rpm > 0
        /\ "LLen" \notin F
        /\ LLen(rdb, key) >= rpm
        /\ "LIndex" \notin F
        /\ ~oldTime.err
        /\ now - oldTime.val < Minute

\* a plausible slip: a failed read blocks
checkRPDRedisFailClosed(channelId, modelName, rpd, F) ==
    LET res == Get(rdb, RedisKey(ChannelRPDPrefix, channelId, modelName))
    IN  /\ rpd > 0
        /\ \/ "GetRPD" \in F
           \/ ~res.err /\ res.val >= rpd

\* lines 75-81: the RPD dimension of checkChannelRateLimitRedis
checkRPDRedis(channelId, modelName, rpd, F) ==
    LET res == Get(rdb, RedisKey(ChannelRPDPrefix, channelId, modelName))
    IN  /\ rpd > 0
        /\ "GetRPD" \notin F
        /\ ~res.err
        /\ res.val >= rpd

\* lines 84-90: the TPM dimension of checkChannelRateLimitRedis
checkTPMRedis(channelId, modelName, tpm, F) ==
    LET res == Get(rdb, RedisKey(ChannelTPMPrefix, channelId, modelName))
    IN  /\ tpm > 0
        /\ "GetTPM" \notin F
        /\ ~res.err
        /\ res.val >= tpm

checkChannelRateLimitRedis(channelId, modelName, rpm, tpm, rpd, F) ==
    IF checkRPMRedis(channelId, modelName, rpm, F) THEN "Saturated"
    ELSE IF checkRPDRedis(channelId, modelName, rpd, F) THEN "Saturated"
    ELSE IF checkTPMRedis(channelId, modelName, tpm, F) THEN "Saturated"
    ELSE "ok"

\* lines 100-107: the RPM operations of recordChannelRateLimitRedis on store db
recordRPMRedis(db, channelId, modelName, rpm, F) ==
    LET limitRPM == IF rpm <= 0 THEN DefaultMonitorCap ELSE rpm
        keyRPM == RedisKey(ChannelRPMPrefix, channelId, modelName)
        d1 == IF "LPush" \in F THEN db ELSE LPush(db, keyRPM, now)
        d2 == IF "LTrim" \in F THEN d1 ELSE LTrim(d1, keyRPM, limitRPM - 1)
    IN  IF "ExpireRPM" \in F THEN d2 ELSE Expire(d2, keyRPM, Minute)

\* a plausible slip: the 24 hours counted from every increment
recordRPDRedisRenew(db, channelId, modelName, F) ==
    LET keyRPD == RedisKey(ChannelRPDPrefix, channelId, modelName)
        d1 == IF "Incr" \in F THEN db ELSE IncrBy(db, keyRPD, 1)
    IN  IF "Incr" \notin F /\ "ExpireRPD" \notin F THEN Expire(d1, keyRPD, Day) ELSE d1

\* lines 110-114: the RPD operations of recordChannelRateLimitRedis on store db
recordRPDRedis(db, channelId, modelName, F) ==
    LET keyRPD == RedisKey(ChannelRPDPrefix, channelId, modelName)
        d1 == IF "Incr" \in F THEN db ELSE IncrBy(db, keyRPD, 1)
        val == IF "Incr" \in F THEN 0 ELSE d1[keyRPD].val
    IN  IF val = 1 /\ "ExpireRPD" \notin F THEN Expire(d1, keyRPD, Day) ELSE d1

\* a plausible slip: the expiry renewed on every add
recordTPMRedisRenew(db, channelId, modelName, tokens, F) ==
    LET keyTPM == RedisKey(ChannelTPMPrefix, channelId, modelName)
        d1 == IF "IncrBy" \in F THEN db ELSE IncrBy(db, keyTPM, tokens)
    IN  IF tokens > 0
        THEN IF "ExpireTPM" \notin F THEN Expire(d1, keyTPM, Minute) ELSE d1
        ELSE db

\* lines 117-123: the TPM operations of recordChannelRateLimitRedis on store db
recordTPMRedis(db, channelId, modelName, tokens, F) ==
    LET keyTPM == RedisKey(ChannelTPMPrefix, channelId, modelName)
        d1 == IF "IncrBy" \in F THEN db ELSE IncrBy(db, keyTPM, tokens)
        val == IF "IncrBy" \in F THEN 0 ELSE d1[keyTPM].val
    IN  IF tokens > 0
        THEN IF val = tokens /\ "ExpireTPM" \notin F THEN Expire(d1, keyTPM, Minute) ELSE d1
        ELSE db

\* a plausible slip: return at the first failed operation
recordChannelRateLimitRedisAbort(db, channelId, modelName, rpm, tpm, rpd, tokens, F) ==
    IF F \cap RpmOps # {} THEN recordRPMRedis(db, channelId, modelName, rpm, F)
    ELSE IF F \cap RpdOps # {}
    THEN recordRPDRedis(recordRPMRedis(db, channelId, modelName, rpm, F),
                        channelId, modelName, F)
    ELSE recordTPMRedis(
             recordRPDRedis(
                 recordRPMRedis(db, channelId, modelName, rpm, F),
                 channelId, modelName, F),
             channelId, modelName, tokens, F)

\* lines 94-124: the store after recordChannelRateLimitRedis; F: the failing operations
recordChannelRateLimitRedis(db, channelId, modelName, rpm, tpm, rpd, tokens, F) ==
    recordTPMRedis(
        recordRPDRedis(
            recordRPMRedis(db, channelId, modelName, rpm, F),
            channelId, modelName, F),
        channelId, modelName, tokens, F)

\* lines 126-143; a failed read leaves the zero value
getChannelRateLimitUsageRedis(channelId, modelName, F) ==
    [rpm |-> IF "LLen" \in F THEN 0
             ELSE LLen(rdb, RedisKey(ChannelRPMPrefix, channelId, modelName)),
     tpm |-> IF "GetTPM" \in F THEN 0
             ELSE Get(rdb, RedisKey(ChannelTPMPrefix, channelId, modelName)).val,
     rpd |-> IF "GetRPD" \in F THEN 0
             ELSE Get(rdb, RedisKey(ChannelRPDPrefix, channelId, modelName)).val]

-----------------------------------------------------------------------------
(* The state machine *)

RECURSIVE SumLen(_, _)
SumLen(h, S) ==
    IF S = {} THEN 0
    ELSE LET p == CHOOSE x \in S : TRUE IN Len(h[p]) + SumLen(h, S \ {p})

Recorded == SumLen(hist, Pairs)

AllOps == RecordOps \cup ReadOps

\* what can be out of order: nothing, one operation, one dimension, everything
Outages ==
    {{}} \cup {{op} : op \in AllOps}
         \cup {RpmOps \cup {"LLen", "LIndex"}, RpdOps \cup {"GetRPD"},
               TpmOps \cup {"GetTPM"}, AllOps}

\* a Record either runs clean or hits the outage; a read leaves no trace in the
\* store, so a read during an outage is always taken to hit it
WriteFailSets == {{}, outage \cap RecordOps}
ReadFailSets == {outage \cap ReadOps}

NoCall == [op |-> "none"]

\* the pairs calls are made on
Active == IF mode = "lockstep" THEN Pairs ELSE {OnePair}

RecordBound ==
    IF outage # {} THEN MaxRecordsFaulty
    ELSE IF mode = "onekey" THEN MaxRecordsOneKey
    ELSE IF mode = "lockstep" THEN MaxRecords
    ELSE MaxRecordsThreads

\* a thread outside every call; admit: the limits its last Check succeeded with
Idle == [pc |-> "idle", admit |-> <<>>]

Unlocked == [writer |-> {}, readers |-> {}]

InitStores ==
    /\ now = 0
    /\ rdb = EmptyMap
    /\ memoryRPMStore = EmptyMap
    /\ memoryTPMStore = EmptyMap
    /\ memoryRPDStore = EmptyMap
    /\ hist = [p \in Pairs |-> <<>>]
    /\ last = NoCall
    /\ th = [t \in Threads |-> Idle]
    /\ memoryMutex = Unlocked

Init == InitStores /\ outage = {} /\ mode = "lockstep"

InitFaulty == InitStores /\ outage \in Outages \ {{}} /\ mode = "lockstep"

InitOneKey == InitStores /\ outage = {} /\ mode = "onekey"

\* the clock advances to t; Redis drops the keys whose expiry has passed
Tick(t) ==
    /\ t > now
    /\ now' = t
    /\ rdb' = [k \in {x \in DOMAIN rdb : rdb[x].exp = NoTTL \/ rdb[x].exp > t}
                 |-> rdb[k]]
    /\ last' = NoCall
    /\ UNCHANGED <<memoryRPMStore, memoryTPMStore, memoryRPDStore, hist, outage>>
    /\ UNCHANGED tvars

\* CheckChannelRateLimit, lines 31-36, on both backends
Check(p, rpm, tpm, rpd, F) ==
    /\ last' = [op |-> "Check", pair |-> p, rpm |-> rpm, tpm |-> tpm, rpd |-> rpd,
                F |-> F,
                redis |-> checkChannelRateLimitRedis(p[1], p[2], rpm, tpm, rpd, F),
                mem |-> checkChannelRateLimitMemory(p[1], p[2], rpm, tpm, rpd)]
    /\ UNCHANGED <<now, rdb, memoryRPMStore, memoryTPMStore, memoryRPDStore,
                   hist, outage>>
    /\ UNCHANGED tvars

\* RecordChannelRateLimit, lines 38-44, on both backends
Record(p, rpm, tpm, rpd, tokens, F) ==
    /\ Recorded < RecordBound
    /\ rdb' = recordChannelRateLimitRedis(rdb, p[1], p[2], rpm, tpm, rpd, tokens, F)
    /\ recordChannelRateLimitMemory(p[1], p[2], rpm, tpm, rpd, tokens)
    /\ hist' = [hist EXCEPT ![p] = Append(@, [ts |-> now, rpm |-> rpm, tpm |-> tpm, rpd |-> rpd,
                                             tokens |-> tokens])]
    /\ last' = [op |-> "Record", pair |-> p, rpm |-> rpm, tpm |-> tpm, rpd |-> rpd,
                tokens |-> tokens, F |-> F]
    /\ UNCHANGED <<now, outage>>
    /\ UNCHANGED tvars

\* a plausible slip: the read prunes the RPM window the way Record does
GetUsagePruning(p, F) ==
    /\ last' = [op |-> "GetUsage", pair |-> p, F |-> F,
                redis |-> getChannelRateLimitUsageRedis(p[1], p[2], F),
                mem |-> getChannelRateLimitUsageMemory(p[1], p[2])]
    /\ memoryRPMStore' =
          [k \in DOMAIN memoryRPMStore |->
              IF k = MemoryKey(p[1], p[2])
              THEN SelectSeq(memoryRPMStore[k], LAMBDA ts : now - ts < Minute)
              ELSE memoryRPMStore[k]]
    /\ UNCHANGED <<now, rdb, memoryTPMStore, memoryRPDStore, hist, outage>>
    /\ UNCHANGED tvars

\* GetChannelRateLimitUsage, lines 46-51, on both backends
GetUsage(p, F) ==
    /\ last' = [op |-> "GetUsage", pair |-> p, F |-> F,
                redis |-> getChannelRateLimitUsageRedis(p[1], p[2], F),
                mem |-> getChannelRateLimitUsageMemory(p[1], p[2])]
    /\ UNCHANGED <<now, rdb, memoryRPMStore, memoryTPMStore, memoryRPDStore,
                   hist, outage>>
    /\ UNCHANGED tvars

Next ==
    \/ \E t \in Instants : Tick(t)
    \/ \E p \in Active, l \in CheckLimits, F \in ReadFailSets :
          Check(p, l[1], l[2], l[3], F)
    \/ \E p \in Active, a \in RecordArgs, F \in WriteFailSets :
          Record(p, a[1], a[2], a[3], a[4], F)
    \/ \E p \in Active, F \in ReadFailSets : GetUsage(p, F)

Spec == Init /\ [][Next]_vars

SpecFaulty == InitFaulty /\ [][Next]_vars

SpecOneKey == InitOneKey /\ [][Next]_vars

-----------------------------------------------------------------------------
(* What the history of Records says, computed without the stores *)

PosLimits == {l \in Limits : l > 0}

\* the Check verdicts and usage triples of both backends, with no store failure
CheckRedis(p, rpm, tpm, rpd) == checkChannelRateLimitRedis(p[1], p[2], rpm, tpm, rpd, {})
CheckMemory(p, rpm, tpm, rpd) == checkChannelRateLimitMemory(p[1], p[2], rpm, tpm, rpd)
UsageRedis(p) == getChannelRateLimitUsageRedis(p[1], p[2], {})
UsageMemory(p) == getChannelRateLimitUsageMemory(p[1], p[2])

RECURSIVE RecentCount(_)
\* the Records of h made less than 60 seconds before now
RecentCount(h) ==
    IF h = <<>> THEN 0
    ELSE (IF now - Head(h).ts < Minute THEN 1 ELSE 0) + RecentCount(Tail(h))

RECURSIVE RecentTokens(_)
\* the tokens recorded in h less than 60 seconds before now
RecentTokens(h) ==
    IF h = <<>> THEN 0
    ELSE (IF now - Head(h).ts < Minute /\ Head(h).tokens > 0 THEN Head(h).tokens ELSE 0)
         + RecentTokens(Tail(h))

NoWindow == [open |-> FALSE, start |-> 0, count |-> 0]

RECURSIVE FixedWindow(_, _, _)
\* the fixed window of length len that the entries of h (ts, amount) leave open:
\* the first entry opens a window, an entry at or after its end opens the next
FixedWindow(h, len, w) ==
    IF h = <<>> THEN w
    ELSE LET e == Head(h) IN
         FixedWindow(Tail(h), len,
             IF ~w.open \/ e.ts >= w.start + len
             THEN [open |-> TRUE, start |-> e.ts, count |-> e.amount]
             ELSE [open |-> TRUE, start |-> w.start, count |-> w.count + e.amount])

RpdEntries(h) == [i \in 1..Len(h) |-> [ts |-> h[i].ts, amount |-> 1]]

TpmEntries(h) ==
    LET pos == SelectSeq(h, LAMBDA r : r.tokens > 0)
    IN  [i \in 1..Len(pos) |-> [ts |-> pos[i].ts, amount |-> pos[i].tokens]]

\* the count of the window while it is open at now, else 0
Current(w, len) == IF w.open /\ now < w.start + len THEN w.count ELSE 0

RpdNow(p) == Current(FixedWindow(RpdEntries(hist[p]), Day, NoWindow), Day)
TpmNow(p) == Current(FixedWindow(TpmEntries(hist[p]), Minute, NoWindow), Minute)

-----------------------------------------------------------------------------
(* C1: backend equivalence: at every Check and GetUsage, the Redis backend   *)
(* and the in-process backend return the same verdict and the same triple.  *)
C1_BackendEquivalence ==
    last.op \in {"Check", "GetUsage"} => last.redis = last.mem

(* C2: RPM sliding window: when every Record of a key and the Check pass the *)
(* same rpmLimit L > 0 (TPM, RPD unlimited), Check is Saturated iff at least *)
(* L Records of the key are less than 60 seconds old, in both backends.      *)
C2_RpmSlidingWindow ==
    \A p \in Pairs, L \in PosLimits :
        (\A i \in 1..Len(hist[p]) : hist[p][i].rpm = L) =>
            /\ (CheckRedis(p, L, 0, 0) = "Saturated") <=> (RecentCount(hist[p]) >= L)
            /\ (CheckMemory(p, L, 0, 0) = "Saturated") <=> (RecentCount(hist[p]) >= L)

\* Records at t and t+30, Check at t+61 with rpmLimit 2 succeeded
C2_Witness ==
    /\ last.op = "Check" /\ last.rpm = 2 /\ last.tpm = 0 /\ last.rpd = 0
    /\ Len(hist[last.pair]) = 2
    /\ hist[last.pair][1].rpm = 2 /\ hist[last.pair][2].rpm = 2
    /\ hist[last.pair][2].ts = hist[last.pair][1].ts + 30
    /\ now = hist[last.pair][1].ts + 61
    /\ last.redis = "ok" /\ last.mem = "ok"

(* C3: RPD fixed window: with rpdLimit L > 0 (RPM, TPM unlimited) Check is   *)
(* Saturated exactly while the window opened by its first Record at t0 is    *)
(* open (now < t0 + 24h) and holds at least L Records; a Record at or after  *)
(* t0 + 24h opens a new window that counts 1.  Both backends.                *)
C3_RpdFixedWindow ==
    \A p \in Pairs :
        /\ UsageRedis(p).rpd = RpdNow(p)
        /\ UsageMemory(p).rpd = RpdNow(p)
        /\ \A L \in PosLimits :
              /\ (CheckRedis(p, 0, 0, L) = "Saturated") <=> (RpdNow(p) >= L)
              /\ (CheckMemory(p, 0, 0, L) = "Saturated") <=> (RpdNow(p) >= L)

\* a second Record 24h after the first opened a new window: rpdLimit 1 is reached,
\* rpdLimit 2 is not
C3_Witness ==
    /\ last.op = "Check" /\ last.rpm = 0 /\ last.tpm = 0 /\ last.rpd = 1
    /\ Len(hist[last.pair]) = 2
    /\ hist[last.pair][2].ts >= hist[last.pair][1].ts + Day
    /\ last.redis = "Saturated" /\ last.mem = "Saturated"
    /\ CheckRedis(last.pair, 0, 0, 2) = "ok" /\ CheckMemory(last.pair, 0, 0, 2) = "ok"

(* C4: TPM usage: GetUsage returns as tpm the sum of the positive token      *)
(* amounts recorded since the Record that opened the current minute window,  *)
(* and 0 from 60 seconds after that Record until the next Record with        *)
(* tokens > 0.  Both backends.                                               *)
C4_TpmUsage ==
    \A p \in Pairs :
        /\ UsageRedis(p).tpm = TpmNow(p)
        /\ UsageMemory(p).tpm = TpmNow(p)

\* two Records with tokens in one window, read back as their sum
C4_Witness ==
    /\ last.op = "GetUsage"
    /\ Len(hist[last.pair]) = 2
    /\ hist[last.pair][1].tokens > 0 /\ hist[last.pair][2].tokens > 0
    /\ hist[last.pair][2].ts > hist[last.pair][1].ts
    /\ now < hist[last.pair][1].ts + Minute
    /\ last.redis.tpm = hist[last.pair][1].tokens + hist[last.pair][2].tokens
    /\ last.mem.tpm = hist[last.pair][1].tokens + hist[last.pair][2].tokens

(* C5: unlimited dimension: a Check that is Saturated is so because of a      *)
(* dimension whose limit is > 0: the Check with that limit alone (the other   *)
(* two unlimited) is Saturated too.  Hence a dimension with limit <= 0 never  *)
(* fails a Check, and a Check with all three limits <= 0 always succeeds.     *)
(* Both backends.                                                             *)
C5_UnlimitedDimension ==
    LET RedisOk(p, rpm, tpm, rpd, verdict) ==
            verdict = "Saturated" =>
                \/ rpm > 0 /\ CheckRedis(p, rpm, 0, 0) = "Saturated"
                \/ tpm > 0 /\ CheckRedis(p, 0, tpm, 0) = "Saturated"
                \/ rpd > 0 /\ CheckRedis(p, 0, 0, rpd) = "Saturated"
        MemoryOk(p, rpm, tpm, rpd, verdict) ==
            verdict = "Saturated" =>
                \/ rpm > 0 /\ CheckMemory(p, rpm, 0, 0) = "Saturated"
                \/ tpm > 0 /\ CheckMemory(p, 0, tpm, 0) = "Saturated"
                \/ rpd > 0 /\ CheckMemory(p, 0, 0, rpd) = "Saturated"
    IN  \* the Check just made
        /\ last.op = "Check" =>
              /\ RedisOk(last.pair, last.rpm, last.tpm, last.rpd, last.redis)
              /\ MemoryOk(last.pair, last.rpm, last.tpm, last.rpd, last.mem)
        \* every Check that can be made on the stores as a Record or the clock left them
        /\ last.op \in {"none", "Record"} =>
              \A p \in Pairs, rpm \in Limits, tpm \in Limits, rpd \in Limits :
                  /\ RedisOk(p, rpm, tpm, rpd, CheckRedis(p, rpm, tpm, rpd))
                  /\ MemoryOk(p, rpm, tpm, rpd, CheckMemory(p, rpm, tpm, rpd))

\* a Check with no limit succeeded on a key with two Records in the last minute
C5_Witness ==
    /\ last.op = "Check" /\ last.rpm = 0 /\ last.tpm = 0 /\ last.rpd = 0
    /\ RecentCount(hist[last.pair]) = 2
    /\ RecentTokens(hist[last.pair]) > 0
    /\ last.redis = "ok" /\ last.mem = "ok"

(* C6: TPM threshold after unlimited recording: when the Records of a key    *)
(* were made with tpmLimit <= 0, a Check with tpmLimit L > 0 (RPM, RPD       *)
(* unlimited) succeeds whenever the tokens recorded on the key in the 60     *)
(* seconds before it sum to less than L.  Both backends.                     *)
C6_TpmThreshold ==
    \A p \in Pairs, L \in PosLimits :
        (/\ \A i \in 1..Len(hist[p]) : hist[p][i].tpm <= 0
         /\ RecentTokens(hist[p]) < L) =>
            /\ CheckRedis(p, 0, L, 0) = "ok"
            /\ CheckMemory(p, 0, L, 0) = "ok"

\* tokens were recorded without a TPM limit; a Check with tpmLimit 3 above their
\* sum succeeded
C6_Witness ==
    /\ last.op = "Check" /\ last.rpm = 0 /\ last.tpm = 3 /\ last.rpd = 0
    /\ Len(hist[last.pair]) = 2
    /\ \A i \in 1..2 : hist[last.pair][i].tpm <= 0 /\ hist[last.pair][i].tokens > 0
    /\ RecentTokens(hist[last.pair]) = 2
    /\ last.redis = "ok" /\ last.mem = "ok"

(* C7: reads are pure: a Check or GetUsage step leaves the Redis store and   *)
(* the three in-process maps unchanged, and a GetUsage that directly follows *)
(* a GetUsage of the same key at the same clock value returns the same       *)
(* triple, in each backend.                                                  *)
C7_ReadsPure ==
    [][ /\ last'.op \in {"Check", "GetUsage"} => stores' = stores
        /\ (last.op = "GetUsage" /\ last'.op = "GetUsage" /\ last'.pair = last.pair) =>
              (last'.redis = last.redis /\ last'.mem = last.mem) ]_vars

\* a GetUsage was made on a key that holds data in every dimension
C7_Witness ==
    /\ last.op = "GetUsage"
    /\ last.mem.rpm > 0 /\ last.mem.tpm > 0 /\ last.mem.rpd > 0
    /\ last.redis.rpm > 0 /\ last.redis.tpm > 0 /\ last.redis.rpd > 0

(* C8: fail open on read errors: a Redis Check some of whose reads fail is    *)
(* Saturated only because of a dimension none of whose reads failed and      *)
(* that is saturated without failures; when every read fails it succeeds.    *)
C8_FailOpen ==
    LET Open(p, rpm, tpm, rpd, F, verdict) ==
            /\ verdict = "Saturated" =>
                  \/ F \cap {"LLen", "LIndex"} = {} /\ CheckRedis(p, rpm, 0, 0) = "Saturated"
                  \/ "GetRPD" \notin F /\ CheckRedis(p, 0, 0, rpd) = "Saturated"
                  \/ "GetTPM" \notin F /\ CheckRedis(p, 0, tpm, 0) = "Saturated"
            /\ {"LLen", "GetRPD", "GetTPM"} \subseteq F => verdict = "ok"
    IN  \* the Check just made
        /\ last.op = "Check" =>
              Open(last.pair, last.rpm, last.tpm, last.rpd, last.F, last.redis)
        \* every Check that can be made on the store as a Record or the clock left it
        /\ last.op \in {"none", "Record"} =>
              \A p \in Pairs, l \in CheckLimits, F \in SUBSET ReadOps :
                  Open(p, l[1], l[2], l[3], F,
                       checkChannelRateLimitRedis(p[1], p[2], l[1], l[2], l[3], F))

\* a Check whose read failed succeeded where the same Check without failure is Saturated
C8_Witness ==
    /\ last.op = "Check" /\ last.F # {}
    /\ last.redis = "ok"
    /\ CheckRedis(last.pair, last.rpm, last.tpm, last.rpd) = "Saturated"

At(m, k) == IF Has(m, k) THEN <<m[k]>> ELSE <<>>

(* C9: per-dimension failure isolation in the Redis Record: after a Record,  *)
(* the list or counter of every dimension none of whose operations failed   *)
(* is what the Record without any failure leaves.                            *)
C9_RecordIsolation ==
    [][ last'.op = "Record" =>
          LET p == last'.pair
              clean == recordChannelRateLimitRedis(rdb, p[1], p[2], last'.rpm, last'.tpm,
                                                   last'.rpd, last'.tokens, {})
              Same(prefix) == At(rdb', RedisKey(prefix, p[1], p[2]))
                                = At(clean, RedisKey(prefix, p[1], p[2]))
          IN  /\ last'.F \cap RpmOps = {} => Same(ChannelRPMPrefix)
              /\ last'.F \cap RpdOps = {} => Same(ChannelRPDPrefix)
              /\ last'.F \cap TpmOps = {} => Same(ChannelTPMPrefix) ]_vars

\* a Record whose RPM push failed still counted the request and its tokens
C9_Witness ==
    /\ last.op = "Record" /\ "LPush" \in last.F /\ last.F \subseteq RpmOps
    /\ last.tokens > 0
    /\ ~Has(rdb, RedisKey(ChannelRPMPrefix, last.pair[1], last.pair[2]))
    /\ Has(rdb, RedisKey(ChannelRPDPrefix, last.pair[1], last.pair[2]))
    /\ Has(rdb, RedisKey(ChannelTPMPrefix, last.pair[1], last.pair[2]))

\* everything stored for the pair q, in both backends
PairState(q) ==
    <<At(rdb, RedisKey(ChannelRPMPrefix, q[1], q[2])),
      At(rdb, RedisKey(ChannelTPMPrefix, q[1], q[2])),
      At(rdb, RedisKey(ChannelRPDPrefix, q[1], q[2])),
      At(memoryRPMStore, MemoryKey(q[1], q[2])),
      At(memoryTPMStore, MemoryKey(q[1], q[2])),
      At(memoryRPDStore, MemoryKey(q[1], q[2]))>>

KeyPairs ==
    {1, 11, 111} \X {<<"a">>, <<"1", "a">>, <<"1", ":", "a">>, <<":", "a">>, <<"1", "1">>}

Prefixes == {ChannelRPMPrefix, ChannelTPMPrefix, ChannelRPDPrefix}

\* the storage keys of p differ from those of every other pair, and across dimensions
KeysDistinct(p) ==
    \A q \in KeyPairs \cup Pairs :
        /\ p # q => MemoryKey(p[1], p[2]) # MemoryKey(q[1], q[2])
        /\ \A x \in Prefixes, y \in Prefixes :
              (p # q \/ x # y) => RedisKey(x, p[1], p[2]) # RedisKey(y, q[1], q[2])

(* C10: key isolation: a Record on one (channelId, modelName) leaves what is *)
(* stored for every other pair unchanged in both backends, and the storage   *)
(* keys of its pair differ from those of every other pair and, in Redis,     *)
(* from one dimension to the other.                                          *)
C10_KeyIsolation ==
    [][ last'.op = "Record" =>
          /\ \A q \in Pairs \ {last'.pair} : PairState(q)' = PairState(q)
          /\ KeysDistinct(last'.pair) ]_vars

\* a Record was made while the other pair held data in every dimension
C10_Witness ==
    /\ last.op = "Record"
    /\ \E q \in Pairs \ {last.pair} :
          /\ UsageMemory(q).rpm > 0 /\ UsageMemory(q).tpm > 0 /\ UsageMemory(q).rpd > 0
          /\ UsageRedis(q).rpm > 0 /\ UsageRedis(q).tpm > 0 /\ UsageRedis(q).rpd > 0

-----------------------------------------------------------------------------
\* the time of the last Record on p
LastRecordTime(p) == hist[p][Len(hist[p])].ts

(* C14: saturation is temporary: once 24 hours have passed since the last    *)
(* Record on a key, every Check on it succeeds in both backends, and a Check *)
(* limited only on RPM and TPM succeeds once 60 seconds have passed; this    *)
(* holds also after Records whose store operations failed and were           *)
(* swallowed.                                                                *)
C14_SelfHealing ==
    last.op = "Check" /\ hist[last.pair] # <<>> =>
        /\ now >= LastRecordTime(last.pair) + Day =>
              last.redis = "ok" /\ last.mem = "ok"
        /\ last.rpd <= 0 /\ now >= LastRecordTime(last.pair) + Minute =>
              last.redis = "ok" /\ last.mem = "ok"

-----------------------------------------------------------------------------
\* lines 325-362: the dimension named by the error of checkChannelRateLimitRedis
violationRedis(channelId, modelName, rpm, tpm, rpd, F) ==
    IF checkRPMRedis(channelId, modelName, rpm, F) THEN "RPM"
    ELSE IF checkRPDRedis(channelId, modelName, rpd, F) THEN "RPD"
    ELSE IF checkTPMRedis(channelId, modelName, tpm, F) THEN "TPM"
    ELSE "ok"

\* lines 416-457: the dimension named by the error of checkChannelRateLimitMemory
violationMemory(channelId, modelName, rpm, tpm, rpd) ==
    LET key == MemoryKey(channelId, modelName) IN
    IF checkRPMMemory(key, rpm) THEN "RPM"
    ELSE IF checkTPMMemory(key, tpm) THEN "TPM"
    ELSE IF checkRPDMemory(key, rpd) THEN "RPD"
    ELSE "ok"

\* the first saturated dimension in the order RPM, RPD, TPM
FirstSaturated(satRPM, satRPD, satTPM) ==
    IF satRPM THEN "RPM" ELSE IF satRPD THEN "RPD" ELSE IF satTPM THEN "TPM" ELSE "ok"

\* (rpm, tpm, rpd) limits the ordering is examined with
OrderLimits == {0, 1, 2} \X {0, 1, 3} \X {0, 1, 2}

(* C15: violation ordering: in both backends Check attributes the Saturated  *)
(* result to the first saturated limited dimension in the order RPM, RPD,    *)
(* TPM.                                                                      *)
C15_ViolationOrdering ==
    \A p \in Pairs, l \in OrderLimits :
        LET key == MemoryKey(p[1], p[2]) IN
        /\ violationRedis(p[1], p[2], l[1], l[2], l[3], {})
             = FirstSaturated(checkRPMRedis(p[1], p[2], l[1], {}),
                              checkRPDRedis(p[1], p[2], l[3], {}),
                              checkTPMRedis(p[1], p[2], l[2], {}))
        /\ violationMemory(p[1], p[2], l[1], l[2], l[3])
             = FirstSaturated(checkRPMMemory(key, l[1]),
                              checkRPDMemory(key, l[3]),
                              checkTPMMemory(key, l[2]))

-----------------------------------------------------------------------------
\* the fixed windows the Records of p have left
TpmWindow(p) == FixedWindow(TpmEntries(hist[p]), Minute, NoWindow)
RpdWindow(p) == FixedWindow(RpdEntries(hist[p]), Day, NoWindow)

\* a counter was created and its expiration is <= now
Expired(w, len) == w.open /\ now >= w.start + len

(* C16: expired counters read as zero and are replaced: while the expiration *)
(* of a TPM or RPD counter is <= now, GetUsage returns 0 for it and Check    *)
(* with any limit on it succeeds, and the next Record that writes the        *)
(* dimension stores exactly its contribution (tokens, 1) with expiration     *)
(* now + 60 s (TPM), now + 24 h (RPD).  Both backends.                       *)
C16_ExpiredReplaced ==
    [][ last'.op \in {"GetUsage", "Record"} =>
          LET p == last'.pair
              key == MemoryKey(p[1], p[2])
              keyTPM == RedisKey(ChannelTPMPrefix, p[1], p[2])
              keyRPD == RedisKey(ChannelRPDPrefix, p[1], p[2])
              read == last'.op = "GetUsage"
              recorded == last'.op = "Record"
          IN  /\ Expired(TpmWindow(p), Minute) =>
                    /\ read =>
                          /\ last'.redis.tpm = 0 /\ last'.mem.tpm = 0
                          /\ \A L \in PosLimits :
                                /\ CheckRedis(p, 0, L, 0) = "ok"
                                /\ CheckMemory(p, 0, L, 0) = "ok"
                    /\ recorded /\ last'.tokens > 0 =>
                          /\ At(rdb', keyTPM)
                               = <<[val |-> last'.tokens, exp |-> now + Minute]>>
                          /\ At(memoryTPMStore', key)
                               = <<[Count |-> last'.tokens, Expiration |-> now + Minute]>>
              /\ Expired(RpdWindow(p), Day) =>
                    /\ read =>
                          /\ last'.redis.rpd = 0 /\ last'.mem.rpd = 0
                          /\ \A L \in PosLimits :
                                /\ CheckRedis(p, 0, 0, L) = "ok"
                                /\ CheckMemory(p, 0, 0, L) = "ok"
                    /\ recorded =>
                          /\ At(rdb', keyRPD) = <<[val |-> 1, exp |-> now + Day]>>
                          /\ At(memoryRPDStore', key)
                               = <<[Count |-> 1, Expiration |-> now + Day]>> ]_vars

\* a Record with tokens made 24 hours or more after the Record with tokens that
\* created both counters of its key has just replaced them
C16_Witness ==
    /\ last.op = "Record" /\ last.tokens > 0
    /\ Len(hist[last.pair]) = 2
    /\ hist[last.pair][1].tokens > 0
    /\ now >= hist[last.pair][1].ts + Day
    /\ memoryTPMStore[MemoryKey(last.pair[1], last.pair[2])]
         = [Count |-> last.tokens, Expiration |-> now + Minute]
    /\ memoryRPDStore[MemoryKey(last.pair[1], last.pair[2])]
         = [Count |-> 1, Expiration |-> now + Day]
    /\ UsageRedis(last.pair).tpm = last.tokens /\ UsageRedis(last.pair).rpd = 1

-----------------------------------------------------------------------------
(* C17: fixed-window anchoring: a stored TPM or RPD counter expires exactly  *)
(* 60 seconds / 24 hours after the Record that created its window, and a     *)
(* Record made while the window is open adds its contribution to the count   *)
(* and leaves the expiration unchanged.  Both backends.                      *)
C17_WindowAnchoring ==
    [][ last'.op \in {"GetUsage", "Record"} =>
          LET p == last'.pair
              key == MemoryKey(p[1], p[2])
              keyTPM == RedisKey(ChannelTPMPrefix, p[1], p[2])
              keyRPD == RedisKey(ChannelRPDPrefix, p[1], p[2])
              recorded == last'.op = "Record"
              tokens == IF recorded /\ last'.tokens > 0 THEN last'.tokens ELSE 0
          IN  /\ Has(rdb, keyTPM) =>
                    /\ rdb[keyTPM].exp = TpmWindow(p).start + Minute
                    /\ recorded =>
                          rdb'[keyTPM] = [val |-> rdb[keyTPM].val + tokens,
                                          exp |-> rdb[keyTPM].exp]
              /\ Has(rdb, keyRPD) =>
                    /\ rdb[keyRPD].exp = RpdWindow(p).start + Day
                    /\ recorded =>
                          rdb'[keyRPD] = [val |-> rdb[keyRPD].val + 1,
                                          exp |-> rdb[keyRPD].exp]
              /\ Has(memoryTPMStore, key) =>
                    /\ memoryTPMStore[key].Expiration = TpmWindow(p).start + Minute
                    /\ recorded /\ now < memoryTPMStore[key].Expiration =>
                          memoryTPMStore'[key]
                            = [Count |-> memoryTPMStore[key].Count + tokens,
                               Expiration |-> memoryTPMStore[key].Expiration]
              /\ Has(memoryRPDStore, key) =>
                    /\ memoryRPDStore[key].Expiration = RpdWindow(p).start + Day
                    /\ recorded /\ now < memoryRPDStore[key].Expiration =>
                          memoryRPDStore'[key]
                            = [Count |-> memoryRPDStore[key].Count + 1,
                               Expiration |-> memoryRPDStore[key].Expiration] ]_vars

\* the second Record of a key, made with tokens 30 s or more after the first, has
\* left both counters with the expirations the first Record gave them
C17_Witness ==
    /\ last.op = "Record" /\ last.tokens > 0
    /\ Len(hist[last.pair]) = 2
    /\ hist[last.pair][1].tokens > 0
    /\ now >= hist[last.pair][1].ts + 30 /\ now < hist[last.pair][1].ts + Minute
    /\ memoryTPMStore[MemoryKey(last.pair[1], last.pair[2])]
         = [Count |-> hist[last.pair][1].tokens + last.tokens,
            Expiration |-> hist[last.pair][1].ts + Minute]
    /\ memoryRPDStore[MemoryKey(last.pair[1], last.pair[2])]
         = [Count |-> 2, Expiration |-> hist[last.pair][1].ts + Day]
    /\ rdb[RedisKey(ChannelTPMPrefix, last.pair[1], last.pair[2])]
         = [val |-> hist[last.pair][1].tokens + last.tokens,
            exp |-> hist[last.pair][1].ts + Minute]
    /\ rdb[RedisKey(ChannelRPDPrefix, last.pair[1], last.pair[2])]
         = [val |-> 2, exp |-> hist[last.pair][1].ts + Day]

-----------------------------------------------------------------------------
\* the cap a Record with limit rpm keeps the RPM window to
Cap(rpm) == IF rpm > 0 THEN rpm ELSE DefaultMonitorCap

\* the stored RPM windows of p, oldest entry first: the Redis list is kept newest first
Reverse(s) == [i \in 1..Len(s) |-> s[Len(s) + 1 - i]]
WindowRedis(p) ==
    LET keyRPM == RedisKey(ChannelRPMPrefix, p[1], p[2])
    IN  IF Has(rdb, keyRPM) THEN Reverse(rdb[keyRPM].val) ELSE <<>>
WindowMemory(p) ==
    LET key == MemoryKey(p[1], p[2])
    IN  IF Has(memoryRPMStore, key) THEN memoryRPMStore[key] ELSE <<>>

\* s is what is left of t when entries are dropped from its old end
IsSuffix(s, t) ==
    /\ Len(s) <= Len(t)
    /\ s = SubSeq(t, Len(t) - Len(s) + 1, Len(t))

(* C18: RPM history cap: between Records the stored RPM window of a key is   *)
(* no longer than the cap of the most recent Record on it (rpmLimit when     *)
(* positive, else 1000); a Record keeps the newest entry, now, and what it   *)
(* drops are the oldest entries.  Both backends.                             *)
C18_RpmCap ==
    [][ \A p \in Pairs :
          /\ hist[p] # <<>> =>
                /\ Len(WindowRedis(p)) <= Cap(hist[p][Len(hist[p])].rpm)
                /\ Len(WindowMemory(p)) <= Cap(hist[p][Len(hist[p])].rpm)
          /\ last'.op = "Record" /\ last'.pair = p =>
                /\ Len(WindowRedis(p)') <= Cap(last'.rpm)
                /\ Len(WindowMemory(p)') <= Cap(last'.rpm)
                /\ IsSuffix(WindowRedis(p)', WindowRedis(p) \o <<now>>)
                /\ IsSuffix(WindowMemory(p)', WindowMemory(p) \o <<now>>)
                /\ WindowRedis(p)'[Len(WindowRedis(p)')] = now
                /\ WindowMemory(p)'[Len(WindowMemory(p)')] = now ]_vars

\* a Record with rpmLimit 1 made 30 s after a Record with rpmLimit 2 has dropped
\* the older entry from both stores
C18_Witness ==
    /\ last.op = "Record" /\ last.rpm = 1
    /\ Len(hist[last.pair]) = 2
    /\ hist[last.pair][1].rpm = 2
    /\ now = hist[last.pair][1].ts + 30
    /\ WindowRedis(last.pair) = <<now>>
    /\ WindowMemory(last.pair) = <<now>>

-----------------------------------------------------------------------------
(* C19: RPM decay on write: right after a Record on a key at time now, every *)
(* timestamp ts left in the key's stored RPM window satisfies now - ts < 60, *)
(* in both backends.                                                         *)
C19_RpmDecayOnWrite ==
    last.op = "Record" =>
        /\ \A i \in 1..Len(WindowRedis(last.pair)) :
              now - WindowRedis(last.pair)[i] < Minute
        /\ \A i \in 1..Len(WindowMemory(last.pair)) :
              now - WindowMemory(last.pair)[i] < Minute

-----------------------------------------------------------------------------
(* The second variant of the file, lines 271-535: Record writes a dimension  *)
(* only when its limit is positive                                           *)

\* lines 364-393
recordChannelRateLimitRedisSecond(db, channelId, modelName, rpm, tpm, rpd, tokens) ==
    LET d1 == IF rpm > 0 THEN recordRPMRedis(db, channelId, modelName, rpm, {}) ELSE db
        d2 == IF rpd > 0 THEN recordRPDRedis(d1, channelId, modelName, {}) ELSE d1
    IN  IF tpm > 0 /\ tokens > 0 THEN recordTPMRedis(d2, channelId, modelName, tokens, {})
        ELSE d2

\* lines 459-501
recordChannelRateLimitMemorySecond(channelId, modelName, rpm, tpm, rpd, tokens) ==
    LET key == MemoryKey(channelId, modelName)
        timestamps == IF Has(memoryRPMStore, key) THEN memoryRPMStore[key] ELSE <<>>
        newTimestamps == SelectSeq(timestamps, LAMBDA ts : now - ts < Minute) \o <<now>>
    IN  /\ memoryRPMStore' = IF rpm > 0 THEN Put(memoryRPMStore, key, newTimestamps)
                             ELSE memoryRPMStore
        /\ memoryTPMStore' = IF tpm > 0 /\ tokens > 0 THEN recordTPMMemory(key, tokens)
                             ELSE memoryTPMStore
        /\ memoryRPDStore' = IF rpd > 0 THEN recordRPDMemory(key) ELSE memoryRPDStore

\* RecordChannelRateLimit of the second variant, lines 308-314, on both backends
RecordSecond(p, rpm, tpm, rpd, tokens) ==
    /\ Recorded < RecordBound
    /\ rdb' = recordChannelRateLimitRedisSecond(rdb, p[1], p[2], rpm, tpm, rpd, tokens)
    /\ recordChannelRateLimitMemorySecond(p[1], p[2], rpm, tpm, rpd, tokens)
    /\ hist' = [hist EXCEPT ![p] = Append(@, [ts |-> now, rpm |-> rpm, tpm |-> tpm, rpd |-> rpd,
                                             tokens |-> tokens])]
    /\ last' = [op |-> "Record", pair |-> p, rpm |-> rpm, tpm |-> tpm, rpd |-> rpd,
                tokens |-> tokens, F |-> {}]
    /\ UNCHANGED <<now, outage>>
    /\ UNCHANGED tvars

NextSecond ==
    \/ \E t \in Instants : Tick(t)
    \/ \E p \in Active, l \in CheckLimits, F \in ReadFailSets :
          Check(p, l[1], l[2], l[3], F)
    \/ \E p \in Active, a \in RecordArgs : RecordSecond(p, a[1], a[2], a[3], a[4])
    \/ \E p \in Active, F \in ReadFailSets : GetUsage(p, F)

SpecSecond == Init /\ [][NextSecond]_vars

RECURSIVE SumTokens(_)
\* the positive token amounts of the Records of h
SumTokens(h) ==
    IF h = <<>> THEN 0
    ELSE (IF Head(h).tokens > 0 THEN Head(h).tokens ELSE 0) + SumTokens(Tail(h))

Min(a, b) == IF a < b THEN a ELSE b

\* every Record of h was made with no limit at all
AllUnlimited(h) ==
    \A i \in 1..Len(h) : h[i].rpm <= 0 /\ h[i].tpm <= 0 /\ h[i].rpd <= 0

(* C20: unlimited dimensions are still recorded: after k Records of a key,   *)
(* all with limits <= 0 and all inside one minute, GetUsage returns          *)
(* rpm = min(k, 1000), tpm = the sum of their tokens, rpd = k, and Check     *)
(* with limits <= 0 succeeds.  Both backends.                                *)
C20_UnlimitedRecorded ==
    \A p \in Pairs :
        LET k == Len(hist[p])
            usage == [rpm |-> Min(k, DefaultMonitorCap), tpm |-> SumTokens(hist[p]),
                      rpd |-> k]
        IN  k > 0 /\ AllUnlimited(hist[p]) /\ now - hist[p][1].ts < Minute =>
               /\ UsageRedis(p) = usage
               /\ UsageMemory(p) = usage
               /\ \A rpm \in {0 - 1, 0}, tpm \in {0 - 1, 0}, rpd \in {0 - 1, 0} :
                     /\ CheckRedis(p, rpm, tpm, rpd) = "ok"
                     /\ CheckMemory(p, rpm, tpm, rpd) = "ok"

-----------------------------------------------------------------------------
(* Concurrent callers of the in-process backend.  Each function reads the    *)
(* clock, takes memoryMutex, handles RPM, TPM and RPD in turn and releases   *)
(* the mutex on return; a thread is at one of these points.                  *)

TKey == MemoryKey(OnePair[1], OnePair[2])

\* (rpm, tpm, rpd, tokens) arguments of the concurrent callers
ThreadArgs == { <<0, 0, 0, 1>>, <<1, 0, 1, 2>> }
\* (rpm, tpm, rpd) limits of their Checks
ThreadLimits == { <<1, 0, 1>> }
\* the clock values the concurrent runs move to
ThreadInstants == {60}

\* memoryMutex.RLock() can return
RLockFree(m) == m.writer = {}

\* a plausible slip: the write lock granted while readers hold the mutex
LockFreeOfWriters(m) == m.writer = {}

\* memoryMutex.Lock() can return
LockFree(m) == m.writer = {} /\ m.readers = {}

\* lines 158-162, 247-251: the timestamps of the key counted at the caller's time t
countRPMMemoryAt(t) ==
    IF Has(memoryRPMStore, TKey) THEN CountIf(memoryRPMStore[TKey], t) ELSE 0

\* lines 171-172, 257-259 (TPM) and 180-181, 264-266 (RPD): the count of an item
\* that is valid at the caller's time t
validCountAt(store, t) ==
    IF Has(store, TKey) /\ t < store[TKey].Expiration THEN store[TKey].Count ELSE 0

\* some thread is inside a Record
RecordInProgress == \E u \in Threads : th[u].pc # "idle" /\ th[u].op = "Record"

\* lines 147-149: checkChannelRateLimitMemory reads the clock
CallCheck(t, rpm, tpm, rpd) ==
    /\ mode = "memory" /\ th[t].pc = "idle"
    /\ th' = [th EXCEPT ![t] = [pc |-> "lock", op |-> "Check", rpm |-> rpm, tpm |-> tpm,
                                 rpd |-> rpd, now |-> now, res |-> "ok"]]
    /\ UNCHANGED <<now, rdb, memoryRPMStore, memoryTPMStore, memoryRPDStore, hist, last,
                   outage, mode, memoryMutex>>

\* the caller's protocol: thread t calls Record right after a Check of its own that
\* succeeded with the same limits
Admitted(t, rpm, tpm, rpd) == th[t].admit = <<rpm, tpm, rpd>>

\* lines 190-192: recordChannelRateLimitMemory reads the clock
CallRecord(t, rpm, tpm, rpd, tokens) ==
    /\ mode = "memory" /\ th[t].pc = "idle"
    /\ Recorded < RecordBound
    /\ th' = [th EXCEPT ![t] = [pc |-> "lock", op |-> "Record", rpm |-> rpm, tpm |-> tpm,
                                 rpd |-> rpd, tokens |-> tokens, now |-> now,
                                 item |-> <<>>]]
    /\ hist' = [hist EXCEPT ![OnePair] =
                   Append(@, [ts |-> now, rpm |-> rpm, tpm |-> tpm, rpd |-> rpd,
                              tokens |-> tokens,
                              admitted |-> Admitted(t, rpm, tpm, rpd),
                              overlaps |-> RecordInProgress])]
    /\ UNCHANGED <<now, rdb, memoryRPMStore, memoryTPMStore, memoryRPDStore, last,
                   outage, mode, memoryMutex>>

\* lines 238-240: getChannelRateLimitUsageMemory reads the clock
CallGetUsage(t) ==
    /\ mode = "memory" /\ th[t].pc = "idle"
    /\ th' = [th EXCEPT ![t] = [pc |-> "lock", op |-> "GetUsage", now |-> now,
                                 res |-> [rpm |-> 0, tpm |-> 0, rpd |-> 0]]]
    /\ UNCHANGED <<now, rdb, memoryRPMStore, memoryTPMStore, memoryRPDStore, hist, last,
                   outage, mode, memoryMutex>>

\* a plausible slip: Record takes the read lock
LockMemoryShared(t) ==
    /\ th[t].pc = "lock" /\ th[t].op = "Record"
    /\ RLockFree(memoryMutex)
    /\ memoryMutex' = [memoryMutex EXCEPT !.readers = @ \cup {t}]
    /\ th' = [th EXCEPT ![t].pc = "rpm"]
    /\ UNCHANGED <<now, rdb, memoryRPMStore, memoryTPMStore, memoryRPDStore, hist, last,
                   outage, mode>>

\* line 194: memoryMutex.Lock() in Record
LockMemory(t) ==
    /\ th[t].pc = "lock" /\ th[t].op = "Record"
    /\ LockFree(memoryMutex)
    /\ memoryMutex' = [memoryMutex EXCEPT !.writer = {t}]
    /\ th' = [th EXCEPT ![t].pc = "rpm"]
    /\ UNCHANGED <<now, rdb, memoryRPMStore, memoryTPMStore, memoryRPDStore, hist, last,
                   outage, mode>>

\* lines 151, 242: memoryMutex.RLock() in Check and GetUsage
RLockMemory(t) ==
    /\ th[t].pc = "lock" /\ th[t].op \in {"Check", "GetUsage"}
    /\ RLockFree(memoryMutex)
    /\ memoryMutex' = [memoryMutex EXCEPT !.readers = @ \cup {t}]
    /\ th' = [th EXCEPT ![t].pc = "rpm"]
    /\ UNCHANGED <<now, rdb, memoryRPMStore, memoryTPMStore, memoryRPDStore, hist, last,
                   outage, mode>>

\* lines 155-167 of Check, 246-253 of GetUsage: the RPM dimension is read
ReadRPM(t) ==
    /\ th[t].pc = "rpm" /\ th[t].op \in {"Check", "GetUsage"}
    /\ th' = [th EXCEPT ![t] =
                 IF th[t].op = "GetUsage"
                 THEN [@ EXCEPT !.pc = "tpm", !.res.rpm = countRPMMemoryAt(th[t].now)]
                 ELSE IF th[t].rpm > 0 /\ Has(memoryRPMStore, TKey)
                         /\ countRPMMemoryAt(th[t].now) >= th[t].rpm
                 THEN [@ EXCEPT !.pc = "unlock", !.res = "Saturated"]
                 ELSE [@ EXCEPT !.pc = "tpm"]]
    /\ UNCHANGED <<now, rdb, memoryRPMStore, memoryTPMStore, memoryRPDStore, hist, last,
                   outage, mode, memoryMutex>>

\* lines 170-176 of Check, 256-260 of GetUsage: the TPM dimension is read
ReadTPM(t) ==
    /\ th[t].pc = "tpm" /\ th[t].op \in {"Check", "GetUsage"}
    /\ th' = [th EXCEPT ![t] =
                 IF th[t].op = "GetUsage"
                 THEN [@ EXCEPT !.pc = "rpd",
                                !.res.tpm = validCountAt(memoryTPMStore, th[t].now)]
                 ELSE IF th[t].tpm > 0 /\ Has(memoryTPMStore, TKey)
                         /\ th[t].now < memoryTPMStore[TKey].Expiration
                         /\ memoryTPMStore[TKey].Count >= th[t].tpm
                 THEN [@ EXCEPT !.pc = "unlock", !.res = "Saturated"]
                 ELSE [@ EXCEPT !.pc = "rpd"]]
    /\ UNCHANGED <<now, rdb, memoryRPMStore, memoryTPMStore, memoryRPDStore, hist, last,
                   outage, mode, memoryMutex>>

\* lines 179-185 of Check, 263-267 of GetUsage: the RPD dimension is read
ReadRPD(t) ==
    /\ th[t].pc = "rpd" /\ th[t].op \in {"Check", "GetUsage"}
    /\ th' = [th EXCEPT ![t] =
                 IF th[t].op = "GetUsage"
                 THEN [@ EXCEPT !.pc = "unlock",
                                !.res.rpd = validCountAt(memoryRPDStore, th[t].now)]
                 ELSE IF th[t].rpd > 0 /\ Has(memoryRPDStore, TKey)
                         /\ th[t].now < memoryRPDStore[TKey].Expiration
                         /\ memoryRPDStore[TKey].Count >= th[t].rpd
                 THEN [@ EXCEPT !.pc = "unlock", !.res = "Saturated"]
                 ELSE [@ EXCEPT !.pc = "unlock"]]
    /\ UNCHANGED <<now, rdb, memoryRPMStore, memoryTPMStore, memoryRPDStore, hist, last,
                   outage, mode, memoryMutex>>

\* lines 198-215: Record rewrites the RPM window of the key, with its own clock value
WriteRPM(t) ==
    /\ th[t].pc = "rpm" /\ th[t].op = "Record"
    /\ LET timestamps == IF Has(memoryRPMStore, TKey) THEN memoryRPMStore[TKey] ELSE <<>>
           newTimestamps ==
               SelectSeq(timestamps, LAMBDA ts : th[t].now - ts < Minute) \o <<th[t].now>>
           limitRPM == IF th[t].rpm <= 0 THEN DefaultMonitorCap ELSE th[t].rpm
           n == Len(newTimestamps)
       IN  memoryRPMStore' =
               Put(memoryRPMStore, TKey,
                   IF n > limitRPM THEN SubSeq(newTimestamps, n - limitRPM + 1, n)
                   ELSE newTimestamps)
    /\ th' = [th EXCEPT ![t].pc = IF th[t].tokens > 0 THEN "tpm" ELSE "rpd"]
    /\ UNCHANGED <<now, rdb, memoryTPMStore, memoryRPDStore, hist, last,
                   outage, mode, memoryMutex>>

\* the item a Record stores from the item it looked up (lines 220-225, 230-234)
newItem(item, t, amount, len) ==
    IF item = <<>> \/ t >= item[1].Expiration
    THEN [Count |-> amount, Expiration |-> t + len]
    ELSE [Count |-> item[1].Count + amount, Expiration |-> item[1].Expiration]

\* line 219: item, ok := memoryTPMStore[key]
LookupTPM(t) ==
    /\ th[t].pc = "tpm" /\ th[t].op = "Record"
    /\ th' = [th EXCEPT ![t].pc = "tpmStore", ![t].item = At(memoryTPMStore, TKey)]
    /\ UNCHANGED <<now, rdb, memoryRPMStore, memoryTPMStore, memoryRPDStore, hist, last,
                   outage, mode, memoryMutex>>

\* lines 220-225: the TPM item is replaced or added to, and stored
StoreTPM(t) ==
    /\ th[t].pc = "tpmStore"
    /\ memoryTPMStore' = Put(memoryTPMStore, TKey,
                             newItem(th[t].item, th[t].now, th[t].tokens, Minute))
    /\ th' = [th EXCEPT ![t].pc = "rpd", ![t].item = <<>>]
    /\ UNCHANGED <<now, rdb, memoryRPMStore, memoryRPDStore, hist, last,
                   outage, mode, memoryMutex>>

\* line 229: item, ok := memoryRPDStore[key]
LookupRPD(t) ==
    /\ th[t].pc = "rpd" /\ th[t].op = "Record"
    /\ th' = [th EXCEPT ![t].pc = "rpdStore", ![t].item = At(memoryRPDStore, TKey)]
    /\ UNCHANGED <<now, rdb, memoryRPMStore, memoryTPMStore, memoryRPDStore, hist, last,
                   outage, mode, memoryMutex>>

\* lines 230-235: the RPD item is replaced or incremented, and stored
StoreRPD(t) ==
    /\ th[t].pc = "rpdStore"
    /\ memoryRPDStore' = Put(memoryRPDStore, TKey, newItem(th[t].item, th[t].now, 1, Day))
    /\ th' = [th EXCEPT ![t].pc = "unlock", ![t].item = <<>>]
    /\ UNCHANGED <<now, rdb, memoryRPMStore, memoryTPMStore, hist, last,
                   outage, mode, memoryMutex>>

\* lines 152, 195, 243: the deferred unlock as the function returns; a Check that
\* succeeded admits the caller's next Record
UnlockMemory(t) ==
    /\ th[t].pc = "unlock"
    /\ memoryMutex' = [writer |-> memoryMutex.writer \ {t},
                       readers |-> memoryMutex.readers \ {t}]
    /\ th' = [th EXCEPT ![t] =
                 [pc |-> "idle",
                  admit |-> IF th[t].op = "Check" /\ th[t].res = "ok"
                            THEN <<th[t].rpm, th[t].tpm, th[t].rpd>> ELSE <<>>]]
    /\ UNCHANGED <<now, rdb, memoryRPMStore, memoryTPMStore, memoryRPDStore, hist, last,
                   outage, mode>>

-----------------------------------------------------------------------------
(* Concurrent callers of the Redis backend: recordChannelRateLimitRedis is   *)
(* a sequence of store operations, each atomic at the store, with no lock.   *)

RKeyRPM == RedisKey(ChannelRPMPrefix, OnePair[1], OnePair[2])
RKeyRPD == RedisKey(ChannelRPDPrefix, OnePair[1], OnePair[2])
RKeyTPM == RedisKey(ChannelTPMPrefix, OnePair[1], OnePair[2])

\* where Record goes on after the RPD operations (line 117)
AfterRPD(tokens) == IF tokens > 0 THEN "incrby" ELSE "idle"

\* the thread at its next operation, or returned
Goto(r, pc) == IF pc = "idle" THEN Idle ELSE [r EXCEPT !.pc = pc]

\* line 105: rdb.LPush(ctx, keyRPM, time.Now().Unix())
RecordLPush(t, rpm, tpm, rpd, tokens) ==
    /\ mode = "redis" /\ th[t].pc = "idle"
    /\ Recorded < RecordBound
    /\ rdb' = LPush(rdb, RKeyRPM, now)
    /\ th' = [th EXCEPT ![t] = [pc |-> "ltrim", op |-> "Record", rpm |-> rpm,
                                 tokens |-> tokens]]
    /\ hist' = [hist EXCEPT ![OnePair] =
                   Append(@, [ts |-> now, rpm |-> rpm, tpm |-> tpm, rpd |-> rpd,
                              tokens |-> tokens, admitted |-> FALSE,
                              overlaps |-> RecordInProgress])]
    /\ UNCHANGED <<now, memoryRPMStore, memoryTPMStore, memoryRPDStore, last,
                   outage, mode, memoryMutex>>

\* line 106: rdb.LTrim(ctx, keyRPM, 0, limitRPM-1)
RecordLTrim(t) ==
    /\ th[t].pc = "ltrim"
    /\ rdb' = LTrim(rdb, RKeyRPM, Cap(th[t].rpm) - 1)
    /\ th' = [th EXCEPT ![t].pc = "expireRPM"]
    /\ UNCHANGED <<now, memoryRPMStore, memoryTPMStore, memoryRPDStore, hist, last,
                   outage, mode, memoryMutex>>

\* line 107: rdb.Expire(ctx, keyRPM, time.Minute)
RecordExpireRPM(t) ==
    /\ th[t].pc = "expireRPM"
    /\ rdb' = Expire(rdb, RKeyRPM, Minute)
    /\ th' = [th EXCEPT ![t].pc = "incr"]
    /\ UNCHANGED <<now, memoryRPMStore, memoryTPMStore, memoryRPDStore, hist, last,
                   outage, mode, memoryMutex>>

\* lines 110-112: val, _ := rdb.Incr(ctx, keyRPD).Result(); if val == 1
RecordIncr(t) ==
    /\ th[t].pc = "incr"
    /\ rdb' = IncrBy(rdb, RKeyRPD, 1)
    /\ th' = [th EXCEPT ![t] = Goto(th[t], IF rdb'[RKeyRPD].val = 1 THEN "expireRPD"
                                            ELSE AfterRPD(th[t].tokens))]
    /\ UNCHANGED <<now, memoryRPMStore, memoryTPMStore, memoryRPDStore, hist, last,
                   outage, mode, memoryMutex>>

\* line 113: rdb.Expire(ctx, keyRPD, 24*time.Hour)
RecordExpireRPD(t) ==
    /\ th[t].pc = "expireRPD"
    /\ rdb' = Expire(rdb, RKeyRPD, Day)
    /\ th' = [th EXCEPT ![t] = Goto(th[t], AfterRPD(th[t].tokens))]
    /\ UNCHANGED <<now, memoryRPMStore, memoryTPMStore, memoryRPDStore, hist, last,
                   outage, mode, memoryMutex>>

\* lines 117-120: val, _ := rdb.IncrBy(ctx, keyTPM, int64(tokens)).Result();
\* if val == int64(tokens)
RecordIncrBy(t) ==
    /\ th[t].pc = "incrby"
    /\ rdb' = IncrBy(rdb, RKeyTPM, th[t].tokens)
    /\ th' = [th EXCEPT ![t] = Goto(th[t], IF rdb'[RKeyTPM].val = th[t].tokens
                                            THEN "expireTPM" ELSE "idle")]
    /\ UNCHANGED <<now, memoryRPMStore, memoryTPMStore, memoryRPDStore, hist, last,
                   outage, mode, memoryMutex>>

\* line 121: rdb.Expire(ctx, keyTPM, time.Minute)
RecordExpireTPM(t) ==
    /\ th[t].pc = "expireTPM"
    /\ rdb' = Expire(rdb, RKeyTPM, Minute)
    /\ th' = [th EXCEPT ![t] = Idle]
    /\ UNCHANGED <<now, memoryRPMStore, memoryTPMStore, memoryRPDStore, hist, last,
                   outage, mode, memoryMutex>>

InitThreads == InitStores /\ outage = {} /\ mode \in {"memory", "redis"}

NextThreads ==
    \/ \E t \in ThreadInstants : Tick(t)
    \/ \E t \in Threads, l \in ThreadLimits : CallCheck(t, l[1], l[2], l[3])
    \/ \E t \in Threads, a \in ThreadArgs : CallRecord(t, a[1], a[2], a[3], a[4])
    \/ \E t \in Threads : CallGetUsage(t)
    \/ \E t \in Threads : LockMemory(t)
    \/ \E t \in Threads : RLockMemory(t)
    \/ \E t \in Threads : ReadRPM(t)
    \/ \E t \in Threads : ReadTPM(t)
    \/ \E t \in Threads : ReadRPD(t)
    \/ \E t \in Threads : WriteRPM(t)
    \/ \E t \in Threads : LookupTPM(t)
    \/ \E t \in Threads : StoreTPM(t)
    \/ \E t \in Threads : LookupRPD(t)
    \/ \E t \in Threads : StoreRPD(t)
    \/ \E t \in Threads : UnlockMemory(t)
    \/ \E t \in Threads, a \in ThreadArgs : RecordLPush(t, a[1], a[2], a[3], a[4])
    \/ \E t \in Threads : RecordLTrim(t)
    \/ \E t \in Threads : RecordExpireRPM(t)
    \/ \E t \in Threads : RecordIncr(t)
    \/ \E t \in Threads : RecordExpireRPD(t)
    \/ \E t \in Threads : RecordIncrBy(t)
    \/ \E t \in Threads : RecordExpireTPM(t)

SpecThreads == InitThreads /\ [][NextThreads]_vars

-----------------------------------------------------------------------------
\* thread t holds memoryMutex: it is between its lock and its unlock
InCS(t) == th[t].pc \in {"rpm", "tpm", "tpmStore", "rpd", "rpdStore", "unlock"}

\* thread t is inside a Record that has written the RPM window and not yet the
\* RPD counter
Partial(t) ==
    mode = "memory" /\ th[t].pc \in {"tpm", "tpmStore", "rpd", "rpdStore"}
                    /\ th[t].op = "Record"

\* what Check and GetUsage return when run in one piece on the stores, at time t
checkMemoryAt(rpm, tpm, rpd, t) ==
    IF rpm > 0 /\ Has(memoryRPMStore, TKey) /\ countRPMMemoryAt(t) >= rpm THEN "Saturated"
    ELSE IF tpm > 0 /\ Has(memoryTPMStore, TKey) /\ validCountAt(memoryTPMStore, t) >= tpm
    THEN "Saturated"
    ELSE IF rpd > 0 /\ Has(memoryRPDStore, TKey) /\ validCountAt(memoryRPDStore, t) >= rpd
    THEN "Saturated"
    ELSE "ok"
usageMemoryAt(t) ==
    [rpm |-> countRPMMemoryAt(t), tpm |-> validCountAt(memoryTPMStore, t),
     rpd |-> validCountAt(memoryRPDStore, t)]

(* C11: in-process atomicity: no Check or GetUsage reads a store while a     *)
(* Record has updated some but not all of the three dimensions, no Record    *)
(* updates a store while another thread is between its lock and unlock, and  *)
(* what a Check or GetUsage returns is what it returns when run in one piece *)
(* on the stores as they are when it returns.                                *)
C11_MemoryAtomicity ==
    [][ \A t \in Threads :
          /\ th'[t] # th[t] /\ InCS(t) /\ th[t].op \in {"Check", "GetUsage"} =>
                \A u \in Threads \ {t} : ~Partial(u)
          /\ th'[t] # th[t] /\ InCS(t) /\ th[t].op = "Record" =>
                \A u \in Threads \ {t} : ~InCS(u)
          /\ th[t].pc = "unlock" /\ th'[t].pc = "idle" /\ th[t].op = "GetUsage" =>
                th[t].res = usageMemoryAt(th[t].now)
          /\ th[t].pc = "unlock" /\ th'[t].pc = "idle" /\ th[t].op = "Check" =>
                th[t].res = checkMemoryAt(th[t].rpm, th[t].tpm, th[t].rpd, th[t].now)
      ]_vars

\* a GetUsage waits for the mutex while a Record has written the RPM window and
\* the TPM counter and not yet the RPD counter
C11_Witness ==
    \E t \in Threads, u \in Threads :
        /\ Partial(t) /\ th[t].pc = "rpdStore" /\ th[t].tokens > 0
        /\ th[u].pc = "lock" /\ th[u].op = "GetUsage"
        /\ countRPMMemoryAt(now) = 1 /\ validCountAt(memoryTPMStore, now) > 0
        /\ validCountAt(memoryRPDStore, now) = 0

-----------------------------------------------------------------------------
\* no call is in progress
AllIdle == \A t \in Threads : th[t].pc = "idle"

\* every Record of h was made at a time inside the window that expires at exp
AllInside(h, exp, len) ==
    \A i \in 1..Len(h) : exp - len <= h[i].ts /\ h[i].ts < exp

(* C12: no lost updates: once all the concurrent Records of a key have       *)
(* completed, if all of them were made inside the fixed window the stored    *)
(* counter belongs to and that window is still open, the RPD counter equals  *)
(* the number of Records and the TPM counter the sum of their positive       *)
(* token amounts.  Both backends.                                            *)
C12_NoLostUpdates ==
    AllIdle /\ hist[OnePair] # <<>> =>
        LET h == hist[OnePair]
            withTokens == SelectSeq(h, LAMBDA r : r.tokens > 0)
        IN  /\ mode = "memory" =>
                 /\ Has(memoryRPDStore, TKey)
                 /\ AllInside(h, memoryRPDStore[TKey].Expiration, Day)
                    /\ now < memoryRPDStore[TKey].Expiration
                      => memoryRPDStore[TKey].Count = Len(h)
                 /\ withTokens # <<>> =>
                       /\ Has(memoryTPMStore, TKey)
                       /\ AllInside(withTokens, memoryTPMStore[TKey].Expiration, Minute)
                          /\ now < memoryTPMStore[TKey].Expiration
                            => memoryTPMStore[TKey].Count = SumTokens(h)
            /\ mode = "redis" =>
                 /\ Has(rdb, RKeyRPD)
                      /\ AllInside(h, rdb[RKeyRPD].exp, Day)
                      => rdb[RKeyRPD].val = Len(h)
                 /\ Has(rdb, RKeyTPM)
                      /\ AllInside(withTokens, rdb[RKeyTPM].exp, Minute)
                      => rdb[RKeyTPM].val = SumTokens(h)
                 /\ now < Minute => Has(rdb, RKeyRPD) /\ (withTokens # <<>> => Has(rdb, RKeyTPM))

\* two Records of which the second began while the first was in progress have
\* both completed and both are counted: in Redis
C12_Witness ==
    /\ mode = "redis" /\ AllIdle /\ Len(hist[OnePair]) = 2
    /\ hist[OnePair][2].overlaps
    /\ rdb[RKeyRPD] = [val |-> 2, exp |-> hist[OnePair][1].ts + Day]
    /\ rdb[RKeyTPM] = [val |-> 3, exp |-> hist[OnePair][1].ts + Minute]

\* and in process
C12_WitnessMemory ==
    /\ mode = "memory" /\ AllIdle /\ Len(hist[OnePair]) = 2
    /\ hist[OnePair][2].overlaps
    /\ memoryRPDStore[TKey] = [Count |-> 2, Expiration |-> hist[OnePair][1].ts + Day]
    /\ memoryTPMStore[TKey] = [Count |-> 3, Expiration |-> hist[OnePair][1].ts + Minute]

-----------------------------------------------------------------------------
\* the Records of h made in the 60 seconds that begin with the i-th
InMinuteFrom(h, i) ==
    Cardinality({j \in 1..Len(h) : h[i].ts <= h[j].ts /\ h[j].ts < h[i].ts + Minute})

(* C13: admission bound: in the in-process backend, when every Record of a   *)
(* key is made by a caller whose own Check with the same limits has just     *)
(* succeeded, with rpmLimit L > 0 no more than L Records fall into any 60    *)
(* seconds, and with rpdLimit L > 0 the RPD counter never exceeds L.         *)
C13_AdmissionBound ==
    mode = "memory" =>
        LET h == hist[OnePair] IN
        \A l \in ThreadLimits :
            (\A i \in 1..Len(h) :
                h[i].admitted /\ <<h[i].rpm, h[i].tpm, h[i].rpd>> = l) =>
               /\ l[1] > 0 => \A i \in 1..Len(h) : InMinuteFrom(h, i) <= l[1]
               /\ l[3] > 0 /\ Has(memoryRPDStore, TKey) =>
                     memoryRPDStore[TKey].Count <= l[3]

-----------------------------------------------------------------------------
(* C21: time-ordered RPM window: in the in-process backend the stored RPM    *)
(* sequence of a key is in non-decreasing timestamp order, oldest first, in  *)
(* every reachable state, also when threads call Record concurrently and     *)
(* each reads its timestamp before it takes the write lock.                  *)
C21_RpmTimeOrdered ==
    mode = "memory" /\ Has(memoryRPMStore, TKey) =>
        \A i \in 1..Len(memoryRPMStore[TKey]), j \in 1..Len(memoryRPMStore[TKey]) :
            i < j => memoryRPMStore[TKey][i] <= memoryRPMStore[TKey][j]

=============================================================================
